---- MODULE Spec2Model ----
(***************************************************************************)
(* Model of panel/app.py: the config synchronizer (sync_users_to_singbox), *)
(* the eligibility query (get_active_users), the user handlers that call   *)
(* the synchronizer, the traffic collector (_collect_traffic) and the      *)
(* tunnel health checker (check_tunnel_health).                            *)
(*                                                                         *)
(* The panel is one uvicorn process with one asyncio event loop.  Every    *)
(* request handler is declared "async def" and calls the synchronizer as   *)
(* an ordinary blocking function, so a handler's body runs on the loop     *)
(* thread from its first statement to its return without a suspension      *)
(* point.  The collector is a task of the same loop and is suspended only  *)
(* at its awaits.  The variable loop names who holds the loop thread.      *)
(***************************************************************************)
EXTENDS Integers, Sequences, FiniteSets, TLC

(* ------------------------------ bounds -------------------------------- *)
MaxTime == 1      \* the clock takes the values 0..MaxTime
MaxUsed == 3      \* traffic_used and the egress accumulators stay <= MaxUsed
MaxBytes == 2     \* a connection's cumulative counters are in 0..MaxBytes
MaxLogs == 2      \* the audit table holds at most MaxLogs entries

UserIds == {1, 2}
UserOrder == <<1, 2>>              \* row order of the users table
Handlers == {"h1", "h2"}           \* two request slots (overlapping requests)
Idle == "idle"

NoExpiry == 0 - 1                  \* expire_at = None

Uuid(u) == <<"uuid", u>>           \* User.uuid, unique per record
Hy2(u) == <<"hy2", u>>             \* User.hy2_password
Flow == "xtls-rprx-vision"

VARIABLES
    users,      \* the users table: id -> record
    now,        \* datetime.now(timezone.utc)
    logs,       \* the system_logs table: sequence of action tags
    doc,        \* the file at settings.SINGBOX_CONFIG
    bak,        \* the file at config_path.with_suffix(".json.bak")
    loop,       \* who is executing on the event loop thread
    hs,         \* per request slot: the handler's state
    sy,         \* per request slot: the locals of sync_users_to_singbox
    conn_tracker,       \* _conn_tracker: connection id -> previous sample
    outbound_traffic,   \* _outbound_traffic: egress tag -> upload, download
    co,         \* the collector task: its position and its locals
    hc,         \* a call of check_tunnel_health: its position and its locals
    rate_limit, \* _login_rate_limit: client IP -> (window start, count)
    clock,      \* time.time(), in seconds
    resp,       \* the response to the last login request
    failed      \* per client IP: the times of its 401 responses of the last
                \* 300 seconds, since its last successful login

sync_vars == <<users, now, logs, doc, bak, loop, hs, sy>>
coll_vars == <<conn_tracker, outbound_traffic, co>>
login_vars == <<rate_limit, clock, resp, failed>>
vars == <<users, now, logs, doc, bak, loop, hs, sy, conn_tracker,
          outbound_traffic, co, hc, rate_limit, clock, resp, failed>>

(* ---------------------------- the directory ---------------------------- *)

\* One row of the users table (the columns eligibility reads).
UserRow(p, e, l, t, x) ==
    [present |-> p, enabled |-> e, traffic_limit |-> l, traffic_used |-> t,
     expire_at |-> x]

\* The two skip conditions of the loop of get_active_users.
EligibleLaxQuota(r, t) ==
    /\ ~(r.expire_at # NoExpiry /\ r.expire_at < t)
    /\ ~(r.traffic_limit > 0 /\ r.traffic_used > r.traffic_limit)

EligibleStrictExpiry(r, t) ==
    /\ ~(r.expire_at # NoExpiry /\ r.expire_at <= t)
    /\ ~(r.traffic_limit > 0 /\ r.traffic_used >= r.traffic_limit)

Eligible(r, t) ==
    /\ ~(r.expire_at # NoExpiry /\ r.expire_at < t)
    /\ ~(r.traffic_limit > 0 /\ r.traffic_used >= r.traffic_limit)

\* get_active_users: the enabled rows, in row order, minus the skipped ones.
get_active_users(dir, t) ==
    SelectSeq(UserOrder,
              LAMBDA u : dir[u].present /\ dir[u].enabled /\ Eligible(dir[u], t))

\* The same list as a set.
ActiveSet(dir, t) ==
    LET active == get_active_users(dir, t)
    IN {active[i] : i \in DOMAIN active}

(* ------------------------- the config document ------------------------- *)

\* A file is absent, or holds a JSON document (a formatting and a value), or
\* holds text that is no complete JSON document.
Absent == [kind |-> "absent"]
Partial == [kind |-> "partial"]
JsonFile(f, inbs) == [kind |-> "json", fmt |-> f, inbounds |-> inbs]

\* An inbound listener: its type, its tls section, whether it has a "users"
\* key, the users list, and the rest of its fields (tag).
Inbound(ty, tls, has, us, tag) ==
    [type |-> ty, tls |-> tls, hasUsers |-> has, users |-> us, tag |-> tag]

VlessReality(us) == [i \in 1..Len(us) |-> [uuid |-> Uuid(us[i]), flow |-> Flow]]
VlessPlain(us) == [i \in 1..Len(us) |-> [uuid |-> Uuid(us[i])]]
Hy2Users(us) == [i \in 1..Len(us) |-> [password |-> Hy2(us[i])]]

\* inbound.get("tls", {}).get("reality", {}).get("enabled", False) raises
\* AttributeError when "tls" (or "reality") is null.
TlsRaises(inb) == inb.type = "vless" /\ inb.tls = "null"

\* The body of the loop over the inbounds, for one inbound.
ProjectAll(inb, act) ==
    [inb EXCEPT !.hasUsers = TRUE, !.users = VlessPlain(act)]

ProjectAppends(inb, act) ==
    IF inb.type = "vless"
    THEN IF inb.tls = "reality"
         THEN [inb EXCEPT !.hasUsers = TRUE, !.users = @ \o VlessReality(act)]
         ELSE [inb EXCEPT !.hasUsers = TRUE, !.users = @ \o VlessPlain(act)]
    ELSE IF inb.type = "hysteria2"
         THEN [inb EXCEPT !.hasUsers = TRUE, !.users = @ \o Hy2Users(act)]
         ELSE inb

ProjectFlowEverywhere(inb, act) ==
    IF inb.type = "vless"
    THEN [inb EXCEPT !.hasUsers = TRUE, !.users = VlessReality(act)]
    ELSE IF inb.type = "hysteria2"
         THEN [inb EXCEPT !.hasUsers = TRUE, !.users = Hy2Users(act)]
         ELSE inb

Project(inb, act) ==
    IF inb.type = "vless"
    THEN IF inb.tls = "reality"
         THEN [inb EXCEPT !.hasUsers = TRUE, !.users = VlessReality(act)]
         ELSE [inb EXCEPT !.hasUsers = TRUE, !.users = VlessPlain(act)]
    ELSE IF inb.type = "hysteria2"
         THEN [inb EXCEPT !.hasUsers = TRUE, !.users = Hy2Users(act)]
         ELSE inb

Mutate(inbs, act) == [i \in 1..Len(inbs) |-> Project(inbs[i], act)]
MutateRaises(inbs) == \E i \in 1..Len(inbs) : TlsRaises(inbs[i])

\* json.dumps(config, indent=2, ensure_ascii=False): the value in the one
\* formatting the panel writes.
Dumps(inbs) == JsonFile("indent2", inbs)


(* ---------------------- sync_users_to_singbox -------------------------- *)

\* The result dict: {"ok": .., "message": ..} or {"ok": True, "active_users": n}.
Fail(m) == [ok |-> FALSE, message |-> m, active_users |-> 0]
Ok(n) == [ok |-> TRUE, message |-> "", active_users |-> n]
NoResult == Fail("")

\* The locals of one call.  pc: the statement about to run.  pre, nlogs: the
\* document and the number of audit entries at the time of the call.  check,
\* reload: how the two commands ended ("none": not run).  checked: the
\* document "sing-box check" exited 0 on; reloaded: the document the daemon
\* was reloaded with by this call (Absent: none).  broken: a copy of the
\* backup over the document has failed in this call, and fails again when
\* repeated.
SyncIdle ==
    [pc |-> "idle", pre |-> Absent, nlogs |-> 0, config |-> <<>>,
     active_users |-> <<>>, check |-> "none", checked |-> Absent,
     reload |-> "none", reloaded |-> Absent, broken |-> FALSE,
     result |-> NoResult]

SyncCall == [SyncIdle EXCEPT !.pc = "exists", !.pre = doc, !.nlogs = Len(logs)]

Running(h) == hs[h].st = "running"
At(h, p) == Running(h) /\ sy[h].pc = p
Goto(h, p) == sy' = [sy EXCEPT ![h].pc = p]
Return(h, r) == sy' = [sy EXCEPT ![h].pc = "returned", ![h].result = r]

\* not config_path.exists()
ConfigMissingNever(d) == FALSE

ConfigMissing(d) == d.kind = "absent"

\* if not config_path.exists(): return {"ok": False, ...}
SyncExists(h) ==
    /\ At(h, "exists")
    /\ IF ConfigMissing(doc)
       THEN Return(h, Fail("config_missing"))
       ELSE Goto(h, "backup")
    /\ UNCHANGED <<users, now, logs, doc, bak, loop, hs>>
    /\ UNCHANGED coll_vars
    /\ UNCHANGED hc
    /\ UNCHANGED login_vars

\* shutil.copy2(config_path, backup_path), before the try block: a failure
\* (OSError) is raised to the caller and may leave a truncated backup.
BackupKeepsOlder == bak' = IF bak.kind = "absent" THEN doc ELSE bak

Backup == bak' = doc

SyncBackup(h) ==
    /\ At(h, "backup")
    /\ \/ /\ Backup
          /\ Goto(h, "read")
       \/ /\ bak' \in {bak, Partial}
          /\ Goto(h, "raised")
    /\ UNCHANGED <<users, now, logs, doc, loop, hs>>
    /\ UNCHANGED coll_vars
    /\ UNCHANGED hc
    /\ UNCHANGED login_vars

\* config = json.loads(config_path.read_text()): raises on an unreadable
\* file and on text that is no JSON document.
SyncRead(h) ==
    /\ At(h, "read")
    /\ \/ /\ doc.kind = "json"
          /\ sy' = [sy EXCEPT ![h].pc = "query", ![h].config = doc.inbounds]
       \/ Goto(h, "except")
    /\ UNCHANGED <<users, now, logs, doc, bak, loop, hs>>
    /\ UNCHANGED coll_vars
    /\ UNCHANGED hc
    /\ UNCHANGED login_vars

\* active_users = get_active_users(db): raises on a database error.
SyncQuery(h) ==
    /\ At(h, "query")
    /\ \/ sy' = [sy EXCEPT ![h].pc = "mutate",
                           ![h].active_users = get_active_users(users, now)]
       \/ Goto(h, "except")
    /\ UNCHANGED <<users, now, logs, doc, bak, loop, hs>>
    /\ UNCHANGED coll_vars
    /\ UNCHANGED hc
    /\ UNCHANGED login_vars

\* for inbound in config.get("inbounds", []): ...
SyncMutate(h) ==
    /\ At(h, "mutate")
    /\ IF MutateRaises(sy[h].config)
       THEN Goto(h, "except")
       ELSE sy' = [sy EXCEPT ![h].pc = "write",
                             ![h].config = Mutate(sy[h].config, sy[h].active_users)]
    /\ UNCHANGED <<users, now, logs, doc, bak, loop, hs>>
    /\ UNCHANGED coll_vars
    /\ UNCHANGED hc
    /\ UNCHANGED login_vars

\* config_path.write_text(json.dumps(config, indent=2, ensure_ascii=False)):
\* the file is opened for writing (truncated) and written in place; a failure
\* leaves it as it was or holding part of the text.
SyncWrite(h) ==
    /\ At(h, "write")
    /\ \/ /\ doc' = Dumps(sy[h].config)
          /\ Goto(h, "check")
       \/ /\ doc' \in {doc, Partial}
          /\ Goto(h, "except")
    /\ UNCHANGED <<users, now, logs, bak, loop, hs>>
    /\ UNCHANGED coll_vars
    /\ UNCHANGED hc
    /\ UNCHANGED login_vars

\* The statements after the validation command has ended with out.
AfterCheckReloadsAnyway(h, out) ==
    IF out = "timeout"
    THEN sy' = [sy EXCEPT ![h].pc = "except", ![h].check = out]
    ELSE sy' = [sy EXCEPT ![h].pc = "reload", ![h].check = out,
                          ![h].checked = IF out = "pass" THEN doc ELSE @]

AfterCheck(h, out) ==
    IF out = "pass"
    THEN sy' = [sy EXCEPT ![h].pc = "reload", ![h].check = out,
                          ![h].checked = doc]
    ELSE IF out = "fail"
         THEN sy' = [sy EXCEPT ![h].pc = "rollback", ![h].check = out]
         ELSE sy' = [sy EXCEPT ![h].pc = "except", ![h].check = out]

\* subprocess.run(["sing-box", "check", "-c", str(config_path)], timeout=10):
\* exit 0, exit non-zero, or TimeoutExpired.
SyncCheck(h) ==
    /\ At(h, "check")
    /\ \E out \in {"pass", "fail", "timeout"} : AfterCheck(h, out)
    /\ UNCHANGED <<users, now, logs, doc, bak, loop, hs>>
    /\ UNCHANGED coll_vars
    /\ UNCHANGED hc
    /\ UNCHANGED login_vars

\* shutil.copy2(backup_path, config_path), when it succeeds.
RestoreSkipped == doc' = doc

Restore == doc' = bak

\* if result.returncode != 0: copy the backup back and return the failure
\* with the validator's stderr.  A failing copy raises inside the try block.
SyncRollback(h) ==
    /\ At(h, "rollback")
    /\ \/ /\ Restore
          /\ Return(h, Fail("check_failed: stderr"))
       \/ /\ doc' \in {doc, Partial}
          /\ sy' = [sy EXCEPT ![h].pc = "except", ![h].broken = TRUE]
    /\ UNCHANGED <<users, now, logs, bak, loop, hs>>
    /\ UNCHANGED coll_vars
    /\ UNCHANGED hc
    /\ UNCHANGED login_vars

\* if result.returncode != 0: return {"ok": False, "message": "reload ..."}
ReloadFailedRollsBack(h) ==
    /\ doc' = bak
    /\ sy' = [sy EXCEPT ![h].pc = "returned", ![h].reload = "fail",
                        ![h].result = Fail("reload_failed: stderr")]

ReloadFailed(h) ==
    /\ doc' = doc
    /\ sy' = [sy EXCEPT ![h].pc = "returned", ![h].reload = "fail",
                        ![h].result = Fail("reload_failed: stderr")]

\* subprocess.run(["systemctl", "reload", "sing-box"], timeout=10): on exit 0
\* the daemon runs the document on disk; exit non-zero; or TimeoutExpired,
\* after which the daemon may or may not have reloaded.
SyncReload(h) ==
    /\ At(h, "reload")
    /\ \/ /\ doc' = doc
          /\ sy' = [sy EXCEPT ![h].pc = "audit", ![h].reload = "ok",
                              ![h].reloaded = doc]
       \/ ReloadFailed(h)
       \/ /\ doc' = doc
          /\ \E r \in {sy[h].reloaded, doc} :
                sy' = [sy EXCEPT ![h].pc = "except", ![h].reload = "timeout",
                                ![h].reloaded = r]
    /\ UNCHANGED <<users, now, logs, bak, loop, hs>>
    /\ UNCHANGED coll_vars
    /\ UNCHANGED hc
    /\ UNCHANGED login_vars

\* db.add(SystemLog(action="sync_users", ...)); db.commit(); return ok.
\* A failing commit raises inside the try block.
AuditedTwice(l) == Append(Append(l, "sync_users"), "sync_users")

Audited(l) == Append(l, "sync_users")

SyncAudit(h) ==
    /\ At(h, "audit")
    /\ \/ /\ logs' = Audited(logs)
          /\ Return(h, Ok(Len(sy[h].active_users)))
       \/ /\ logs' = logs
          /\ Goto(h, "except")
    /\ UNCHANGED <<users, now, doc, bak, loop, hs>>
    /\ UNCHANGED coll_vars
    /\ UNCHANGED hc
    /\ UNCHANGED login_vars

\* except Exception as e: copy the backup back if it exists and return the
\* failure.  A failing copy raises out of the function.
SyncExcept(h) ==
    /\ At(h, "except")
    /\ IF bak.kind = "absent"
       THEN /\ doc' = doc
            /\ Return(h, Fail("exception"))
       ELSE \/ /\ ~sy[h].broken
               /\ Restore
               /\ Return(h, Fail("exception"))
            \/ /\ doc' \in {doc, Partial}
               /\ Goto(h, "raised")
    /\ UNCHANGED <<users, now, logs, bak, loop, hs>>
    /\ UNCHANGED coll_vars
    /\ UNCHANGED hc
    /\ UNCHANGED login_vars

SyncStep(h) ==
    \/ SyncExists(h) \/ SyncBackup(h) \/ SyncRead(h) \/ SyncQuery(h)
    \/ SyncMutate(h) \/ SyncWrite(h) \/ SyncCheck(h) \/ SyncRollback(h)
    \/ SyncReload(h) \/ SyncAudit(h) \/ SyncExcept(h)

(* ------------------------------ handlers ------------------------------- *)

\* A request body: the field it sets and the value (UserCreate, UserUpdate).
Req(f, v) == [field |-> f, value |-> v]
NoReq == Req("none", 0)

\* The bodies tried: a create with traffic_limit 0 or 1; an update that
\* disables the user, sets traffic_limit to 1, or clears the expiry
\* (expire_days < 0).
Requests(op) ==
    IF op = "create_user" THEN {Req("traffic_limit", 0), Req("traffic_limit", 1)}
    ELSE IF op = "update_user"
         THEN {Req("enabled", 0), Req("traffic_limit", 1), Req("expire_days", 0 - 1)}
         ELSE {NoReq}

\* A handler's state: its operation, path parameter and body; user, the row
\* its first query loaded (before the handler changes it); sync, in a free
\* slot, the "sync" member of the response the slot's last request got.
NoRow == UserRow(FALSE, FALSE, 0, 0, NoExpiry)
HandlerIdle ==
    [st |-> "free", op |-> "none", uid |-> 0, user |-> NoRow, req |-> NoReq,
     sync |-> "none"]

\* A handler declared "def" is run by the thread pool instead: it starts
\* whatever the loop is doing.
CanStartThreaded(h) == TRUE

\* An "async def" handler's body is run by the loop thread, which runs one
\* coroutine at a time: the body starts when no other coroutine is executing.
CanStart(h) == loop = Idle

\* A request arrives: FastAPI schedules the handler's coroutine.
Arrive(h, ops) ==
    /\ hs[h].st = "free"
    /\ \E op \in ops, u \in UserIds :
          \E req \in Requests(op) :
             hs' = [hs EXCEPT ![h] =
                      [HandlerIdle EXCEPT
                          !.st = "pending", !.op = op, !.req = req,
                          !.uid = IF op = "system_reload" THEN 0 ELSE u]]
    /\ UNCHANGED <<users, now, logs, doc, bak, loop, sy>>
    /\ UNCHANGED coll_vars
    /\ UNCHANGED hc
    /\ UNCHANGED login_vars

\* A row as update_user leaves it.
Updated(r, req) ==
    IF req.field = "enabled" THEN [r EXCEPT !.enabled = (req.value = 1)]
    ELSE IF req.field = "traffic_limit" THEN [r EXCEPT !.traffic_limit = req.value]
    ELSE IF req.field = "expire_days"
         THEN [r EXCEPT !.expire_at = IF req.value < 0 THEN NoExpiry ELSE now]
         ELSE r

\* The statements of a handler before its call of sync_users_to_singbox: the
\* change of the row (db.add, db.delete or assignments), then db.commit().
MutationAfterSync(op, u, req) == users

Mutation(op, u, req) ==
    IF op = "reset_traffic" THEN [users EXCEPT ![u].traffic_used = 0]
    ELSE IF op = "toggle_user" THEN [users EXCEPT ![u].enabled = ~@]
    ELSE IF op = "delete_user" THEN [users EXCEPT ![u] = NoRow]
    ELSE IF op = "create_user"
         THEN [users EXCEPT ![u] = UserRow(TRUE, TRUE, req.value, 0, NoExpiry)]
    ELSE IF op = "update_user" THEN [users EXCEPT ![u] = Updated(@, req)]
    ELSE users

\* if not user: raise HTTPException(status_code=404); in create_user, if the
\* username exists: raise HTTPException(status_code=400).
NotFound(op, u) ==
    IF op = "system_reload" THEN FALSE
    ELSE IF op = "create_user" THEN users[u].present
    ELSE ~users[u].present

Start(h) ==
    /\ hs[h].st = "pending"
    /\ CanStart(h)
    /\ Len(logs) < MaxLogs
    /\ LET op == hs[h].op
           u == hs[h].uid
       IN IF NotFound(op, u)
          THEN /\ hs' = [hs EXCEPT ![h] = HandlerIdle]
               /\ UNCHANGED <<users, loop, sy>>
          ELSE /\ users' = Mutation(op, u, hs[h].req)
               /\ hs' = [hs EXCEPT ![h].st = "running",
                                   ![h].user = IF op = "system_reload"
                                               THEN NoRow ELSE users[u]]
               /\ loop' = h
               /\ sy' = [sy EXCEPT ![h] = SyncCall]
    /\ UNCHANGED <<now, logs, doc, bak>>
    /\ UNCHANGED coll_vars
    /\ UNCHANGED hc
    /\ UNCHANGED login_vars

\* return {"ok": True, "sync": sync_result}; an exception raised by the
\* synchronizer ends the handler with a 500 response.
Response(s) ==
    IF s.pc = "raised" THEN "raised"
    ELSE IF s.result.ok THEN "ok" ELSE "failed"

\* create_user and delete_user add their own SystemLog row once the
\* synchronizer has returned, whatever it returned.
Logged(op, l) ==
    IF op \in {"create_user", "delete_user"} THEN Append(l, op) ELSE l

Finish(h) ==
    /\ Running(h)
    /\ sy[h].pc \in {"returned", "raised"}
    /\ hs' = [hs EXCEPT ![h] = [HandlerIdle EXCEPT !.sync = Response(sy[h])]]
    /\ sy' = [sy EXCEPT ![h] = SyncIdle]
    /\ loop' = Idle
    /\ logs' = IF sy[h].pc = "returned" THEN Logged(hs[h].op, logs) ELSE logs
    /\ UNCHANGED <<users, now, doc, bak>>
    /\ UNCHANGED coll_vars
    /\ UNCHANGED hc
    /\ UNCHANGED login_vars

\* Wall-clock time passes.
Tick ==
    /\ now < MaxTime
    /\ now' = now + 1
    /\ UNCHANGED <<users, logs, doc, bak, loop, hs, sy>>
    /\ UNCHANGED coll_vars
    /\ UNCHANGED hc
    /\ UNCHANGED login_vars

\* The process is killed while a handler runs and is started again: the
\* tables and the two files stay, everything in memory is lost.  A copy or a
\* write that was under way leaves its target as it was or holding part of
\* the text.
Crash ==
    /\ \E h \in Handlers :
          /\ Running(h)
          /\ IF sy[h].pc = "backup"
             THEN bak' \in {bak, Partial} /\ doc' = doc
             ELSE IF sy[h].pc \in {"write", "rollback", "except"}
                  THEN doc' \in {doc, Partial} /\ bak' = bak
                  ELSE doc' = doc /\ bak' = bak
    /\ hs' = [h \in Handlers |-> HandlerIdle]
    /\ sy' = [h \in Handlers |-> SyncIdle]
    /\ loop' = Idle
    /\ UNCHANGED <<users, now, logs>>
    /\ UNCHANGED coll_vars
    /\ UNCHANGED hc
    /\ UNCHANGED login_vars

(* --------------------------- _collect_traffic -------------------------- *)

ConnIds == {"c1", "c2"}
Outbounds == {"wg-jp", "direct"}
NoUser == <<>>                     \* metadata.user missing or ""
Unknown == <<"uuid", 0>>           \* a key that is no user's uuid or password
Keys == {Uuid(u) : u \in UserIds} \cup {Hy2(u) : u \in UserIds} \cup {Unknown}

\* One element of "connections".  bad: an entry the loop body raises on
\* (for example "metadata": null, where metadata.get raises AttributeError).
Conn(id, up, down, user, out) ==
    [id |-> id, upload |-> up, download |-> down, user |-> user,
     outbound |-> out, bad |-> FALSE]
BadConn(id) ==
    [id |-> id, upload |-> 0, download |-> 0, user |-> NoUser,
     outbound |-> "", bad |-> TRUE]

\* An entry of _conn_tracker; seen = FALSE: the id is not in the dict.
Sample(up, down, user, out) ==
    [seen |-> TRUE, upload |-> up, download |-> down, user |-> user,
     outbound |-> out]
Untracked == [seen |-> FALSE, upload |-> 0, download |-> 0, user |-> NoUser,
              outbound |-> ""]

NoTraffic == [upload |-> 0, download |-> 0]
NoDeltas == [k \in Keys |-> 0]

\* prev = _conn_tracker.get(conn_id); the delta of one counter.
DeltaIgnoresPrevious(prev, before, cur) == cur

DeltaSkipsFirst(prev, before, cur) == IF prev.seen THEN cur - before ELSE 0

Delta(prev, before, cur) == IF prev.seen THEN cur - before ELSE cur

\* max(up_delta, 0)
Max0Unclamped(x) == x

Max0(x) == IF x > 0 THEN x ELSE 0

\* The body of "for conn in connections" for one entry, on the cycle's
\* locals a = [cur: current_conns, ud: user_deltas, ot: _outbound_traffic,
\* raised]; tr is _conn_tracker.
ProcessConn(a, c, tr) ==
    IF c.bad THEN [a EXCEPT !.raised = TRUE]
    ELSE IF c.id = "" THEN a
    ELSE LET prev == tr[c.id]
             up_delta == Delta(prev, prev.upload, c.upload)
             down_delta == Delta(prev, prev.download, c.download)
             total_delta == up_delta + down_delta
         IN [a EXCEPT
               !.cur[c.id] = Sample(c.upload, c.download, c.user, c.outbound),
               !.ud = IF total_delta > 0 /\ c.user # NoUser
                      THEN [@ EXCEPT ![c.user] = @ + total_delta]
                      ELSE @,
               !.ot = IF (up_delta > 0 \/ down_delta > 0) /\ c.outbound # ""
                      THEN [@ EXCEPT ![c.outbound] =
                              [upload |-> @.upload + Max0(up_delta),
                               download |-> @.download + Max0(down_delta)]]
                      ELSE @]

\* The loop over the snapshot from entry i on; it stops at the entry that
\* raises.
RECURSIVE ProcessFrom(_, _, _, _)
ProcessFrom(a, snap, i, tr) ==
    IF i > Len(snap) \/ a.raised THEN a
    ELSE ProcessFrom(ProcessConn(a, snap[i], tr), snap, i + 1, tr)

Process(snap) ==
    ProcessFrom([cur |-> [c \in ConnIds |-> Untracked], ud |-> NoDeltas,
                 ot |-> outbound_traffic, raised |-> FALSE],
                snap, 1, conn_tracker)

\* db.query(User).filter((User.uuid == uid) | (User.hy2_password == uid))
\* .first(): the first matching row, 0 when there is none.
Matches(k) == {u \in UserIds : users[u].present /\ (Uuid(u) = k \/ Hy2(u) = k)}
Lookup(k) ==
    IF Matches(k) = {} THEN 0
    ELSE CHOOSE u \in Matches(k) : \A v \in Matches(k) : u <= v

\* for uid, delta in user_deltas.items(): the row the key finds, if any, gets
\* user.traffic_used += delta; a key that finds none is passed over.
CreditFailsOnMiss(ud) ==
    IF \E k \in Keys : ud[k] > 0 /\ Lookup(k) = 0 THEN users
    ELSE [u \in UserIds |->
            LET add == (IF Lookup(Uuid(u)) = u THEN ud[Uuid(u)] ELSE 0)
                       + (IF Lookup(Hy2(u)) = u THEN ud[Hy2(u)] ELSE 0)
            IN [users[u] EXCEPT !.traffic_used = @ + add]]

Credit(ud) ==
    [u \in UserIds |->
        LET add == (IF Lookup(Uuid(u)) = u THEN ud[Uuid(u)] ELSE 0)
                   + (IF Lookup(Hy2(u)) = u THEN ud[Hy2(u)] ELSE 0)
        IN [users[u] EXCEPT !.traffic_used = @ + add]]

Capped(dir, ot) ==
    /\ \A u \in UserIds : dir[u].traffic_used <= MaxUsed
    /\ \A o \in Outbounds : ot[o].upload <= MaxUsed /\ ot[o].download <= MaxUsed

\* The collector's position: "warmup" (the first sleep), "fetch" (awaiting
\* the GET of /connections), "backoff" (the sleep after a status other than
\* 200), "sleep" (the sleep after a cycle), "done" (the task has ended).
\* status: how the cycle last run ended ("none" before the first cycle and
\* while a cycle awaits its response).  connections: the local of that name,
\* the snapshot of that cycle (no statement reads the previous cycle's value).
CollectorStart == [pc |-> "warmup", status |-> "none", connections |-> <<>>]
Polling == [pc |-> "fetch", status |-> "none", connections |-> <<>>]

\* The end of the try statement: the loop goes on to the sleep at its foot,
\* whether the cycle completed or an exception was logged.
AfterCycleBreaksOnFailure(st, snap) ==
    [pc |-> IF st = "ok" THEN "sleep" ELSE "done", status |-> st,
     connections |-> snap]

AfterCycle(st, snap) == [pc |-> "sleep", status |-> st, connections |-> snap]

\* _conn_tracker = current_conns
NewTrackerKeepsStale(cur) ==
    [c \in ConnIds |-> IF cur[c].seen THEN cur[c] ELSE conn_tracker[c]]

NewTracker(cur) == cur

\* The usage write when db.commit() raises: db.rollback() discards every
\* pending change of the session.
RolledBackKeepsFirst(ud) ==
    [u \in UserIds |-> IF u = 1 THEN Credit(ud)[u] ELSE users[u]]

RolledBackKeepsAll(ud) == Credit(ud)

RolledBack(ud) == users

\* A sleep ends: the loop resumes the task, which starts the next cycle and
\* awaits the response.
CollectorWake ==
    /\ co.pc \in {"warmup", "sleep", "backoff"}
    /\ loop = Idle
    /\ co' = Polling
    /\ UNCHANGED <<conn_tracker, outbound_traffic>>
    /\ UNCHANGED sync_vars
    /\ UNCHANGED hc
    /\ UNCHANGED login_vars

\* The GET fails (an exception, logged by the outer handler, then the sleep
\* at the foot of the loop) or answers with another status than 200 (the
\* sleep inside the try statement, then continue): nothing else runs in this
\* cycle.
SkippedForgetsSamples(tr) == [c \in ConnIds |-> Untracked]

\* The tracked table after such a cycle: the assignment of current_conns is
\* not reached.
Skipped(tr) == tr

CollectorSkip ==
    /\ co.pc = "fetch"
    /\ loop = Idle
    /\ \/ co' = AfterCycle("error", <<>>)
       \/ co' = [AfterCycle("skipped", <<>>) EXCEPT !.pc = "backoff"]
    /\ conn_tracker' = Skipped(conn_tracker)
    /\ UNCHANGED outbound_traffic
    /\ UNCHANGED sync_vars
    /\ UNCHANGED hc
    /\ UNCHANGED login_vars

\* The GET answers 200 with the snapshot snap: the rest of the cycle, which
\* has no suspension point.  fails: the commit of the usage write raises.
CollectorCycle(snaps) ==
    /\ co.pc = "fetch"
    /\ loop = Idle
    /\ \E snap \in snaps, fails \in BOOLEAN :
          LET a == Process(snap)
              write == \E k \in Keys : a.ud[k] > 0
          IN /\ Capped(Credit(a.ud), a.ot)
             /\ outbound_traffic' = a.ot
             /\ IF a.raised
                THEN /\ ~fails
                     /\ co' = AfterCycle("raised", snap)
                     /\ UNCHANGED <<conn_tracker, users>>
                ELSE /\ conn_tracker' = NewTracker(a.cur)
                     /\ IF write /\ fails
                        THEN /\ users' = RolledBack(a.ud)
                             /\ co' = AfterCycle("write_failed", snap)
                        ELSE /\ ~fails
                             /\ users' = IF write THEN Credit(a.ud) ELSE users
                             /\ co' = AfterCycle("ok", snap)
    /\ UNCHANGED <<now, logs, doc, bak, loop, hs, sy, hc>>
    /\ UNCHANGED login_vars

\* The places the task can be suspended in: its awaits.
CancelPoints == {"warmup", "fetch", "backoff", "sleep"}

\* collector.cancel() at shutdown: CancelledError is raised at the await the
\* task is suspended in.  Inside the try statement (the GET, the sleep after
\* a status other than 200) it is caught and the loop is left by break; at
\* the other two sleeps it ends the coroutine.  Either way the task ends.
CancelledSwallowed(c) == [c EXCEPT !.status = "cancelled"]

Cancelled(c) == [c EXCEPT !.pc = "done", !.status = "cancelled"]

CollectorCancel ==
    /\ co.pc \in CancelPoints
    /\ loop = Idle
    /\ co' = Cancelled(co)
    /\ UNCHANGED <<conn_tracker, outbound_traffic>>
    /\ UNCHANGED sync_vars
    /\ UNCHANGED hc
    /\ UNCHANGED login_vars

(* ------------------------- check_tunnel_health ------------------------- *)

\* Three of the five tags of tunnel_tags, in the order of the list.
tunnel_tags == <<"wg-jp", "wg-sg", "direct">>
Tags == {tunnel_tags[i] : i \in DOMAIN tunnel_tags}

LastDelay == 7         \* a delay recorded in a proxy's history
MeasuredDelay == 3     \* the delay a probe answers with

\* proxies[tag]: the entry of the listing; listed = FALSE: tag not in proxies.
Proxy(al, d) == [listed |-> TRUE, type |-> "WireGuard", alive |-> al, delay |-> d]
NotListed == [listed |-> FALSE, type |-> "unknown", alive |-> FALSE, delay |-> 0]
Listings == [Tags -> {NotListed} \cup { Proxy(al, d) : al \in BOOLEAN,
                                                       d \in {0, LastDelay} }]

\* info = {"tag": .., "type": .., "alive": .., "delay": ..}
Info(tag, proxy) ==
    [tag |-> tag, type |-> proxy.type, alive |-> proxy.alive,
     delay |-> proxy.delay]

\* The inner try statement, for the outcome of the GET of .../delay: "ok"
\* (status 200), "status" (another status), "raised" (an exception, a timeout).
AfterProbe(info, out) ==
    IF out = "ok" THEN [info EXCEPT !.delay = MeasuredDelay, !.alive = TRUE]
    ELSE IF out = "status" THEN [info EXCEPT !.alive = FALSE]
    ELSE info

\* The locals of a call.  i: the index of the tag the loop is at.  listing,
\* probes: how the GET of /proxies and each tag's probe ended ("none": not
\* issued).
HealthIdle ==
    [pc |-> "idle", i |-> 1, listing |-> "none",
     proxies |-> [t \in Tags |-> NotListed], probes |-> [t \in Tags |-> "none"],
     tunnels |-> <<>>]

\* The statements after the probe of the tag at i has ended with out.
ProbedAbortsOnRaise(h, out) ==
    LET tag == tunnel_tags[h.i]
    IN IF out = "raised"
       THEN [h EXCEPT !.pc = "returned", !.probes[tag] = out]
       ELSE [h EXCEPT !.i = @ + 1, !.probes[tag] = out,
                      !.tunnels = Append(@, AfterProbe(Info(tag, h.proxies[tag]),
                                                       out))]

Probed(h, out) ==
    LET tag == tunnel_tags[h.i]
    IN [h EXCEPT !.i = @ + 1, !.probes[tag] = out,
                 !.tunnels = Append(@, AfterProbe(Info(tag, h.proxies[tag]), out))]

\* A handler calls check_tunnel_health().
HealthCall ==
    /\ hc.pc = "idle"
    /\ hc' = [HealthIdle EXCEPT !.pc = "listing"]
    /\ UNCHANGED sync_vars
    /\ UNCHANGED coll_vars
    /\ UNCHANGED login_vars

\* resp = await client.get(".../proxies"): an exception or another status
\* than 200 returns the empty list; otherwise proxies is the listing.
HealthListing ==
    /\ hc.pc = "listing"
    /\ \/ \E out \in {"raised", "status"} :
             hc' = [hc EXCEPT !.pc = "returned", !.listing = out]
       \/ \E px \in Listings :
             hc' = [hc EXCEPT !.pc = "probe", !.listing = "ok", !.proxies = px]
    /\ UNCHANGED sync_vars
    /\ UNCHANGED coll_vars
    /\ UNCHANGED login_vars

\* One iteration of "for tag in tunnel_tags": a tag that is not in proxies is
\* passed over; a tag that is in it is probed and its info appended.
HealthProbe ==
    /\ hc.pc = "probe"
    /\ hc.i <= Len(tunnel_tags)
    /\ IF hc.proxies[tunnel_tags[hc.i]].listed
       THEN \E out \in {"ok", "status", "raised"} : hc' = Probed(hc, out)
       ELSE hc' = [hc EXCEPT !.i = @ + 1]
    /\ UNCHANGED sync_vars
    /\ UNCHANGED coll_vars
    /\ UNCHANGED login_vars

\* return tunnels
HealthReturn ==
    /\ hc.pc = "probe"
    /\ hc.i > Len(tunnel_tags)
    /\ hc' = [hc EXCEPT !.pc = "returned"]
    /\ UNCHANGED sync_vars
    /\ UNCHANGED coll_vars
    /\ UNCHANGED login_vars

\* The caller has taken the result; another request may call again.
HealthFinish ==
    /\ hc.pc = "returned"
    /\ hc' = HealthIdle
    /\ UNCHANGED sync_vars
    /\ UNCHANGED coll_vars
    /\ UNCHANGED login_vars

(* ------------------------------- the login ----------------------------- *)

LOGIN_MAX_ATTEMPTS == 5
LOGIN_WINDOW_SECONDS == 300

Ips == {"ip1", "ip2"}

\* The instants at which requests are tried: the start of a window, its last
\* seconds and the seconds after it, for two windows in a row.
LoginTimes ==
    {0, 1, LOGIN_WINDOW_SECONDS - 1, LOGIN_WINDOW_SECONDS,
     LOGIN_WINDOW_SECONDS + 1, 2 * LOGIN_WINDOW_SECONDS + 1,
     2 * LOGIN_WINDOW_SECONDS + 2}

\* An entry of _login_rate_limit: (last_time, count); NoRecord: no entry.
NoRecord == [known |-> FALSE, last_time |-> 0, count |-> 0]
Record(t, c) == [known |-> TRUE, last_time |-> t, count |-> c]

\* What check_login_rate_limit returns, with the entry it leaves.
Answer(a, r, w, rec) ==
    [allowed |-> a, remaining |-> r, wait_seconds |-> w, record |-> rec]

\* check_login_rate_limit(client_ip) for the entry rec of the IP, at time t.
CheckExtendsLockout(rec, t) ==
    IF ~rec.known THEN Answer(TRUE, LOGIN_MAX_ATTEMPTS - 1, 0, Record(t, 1))
    ELSE IF t - rec.last_time > LOGIN_WINDOW_SECONDS
         THEN Answer(TRUE, LOGIN_MAX_ATTEMPTS - 1, 0, Record(t, 1))
    ELSE IF rec.count >= LOGIN_MAX_ATTEMPTS
         THEN Answer(FALSE, 0, LOGIN_WINDOW_SECONDS - (t - rec.last_time),
                     Record(t, rec.count))
    ELSE Answer(TRUE, LOGIN_MAX_ATTEMPTS - rec.count - 1, 0,
                Record(rec.last_time, rec.count + 1))

check_login_rate_limit(rec, t) ==
    IF ~rec.known THEN Answer(TRUE, LOGIN_MAX_ATTEMPTS - 1, 0, Record(t, 1))
    ELSE IF t - rec.last_time > LOGIN_WINDOW_SECONDS
         THEN Answer(TRUE, LOGIN_MAX_ATTEMPTS - 1, 0, Record(t, 1))
    ELSE IF rec.count >= LOGIN_MAX_ATTEMPTS
         THEN Answer(FALSE, 0, LOGIN_WINDOW_SECONDS - (t - rec.last_time), rec)
    ELSE Answer(TRUE, LOGIN_MAX_ATTEMPTS - rec.count - 1, 0,
                Record(rec.last_time, rec.count + 1))

\* The response to a login request: the IP, the HTTP status, and what the
\* check returned.
Response429(ip, a) ==
    [ip |-> ip, status |-> 429, allowed |-> FALSE, remaining |-> a.remaining,
     wait_seconds |-> a.wait_seconds]
ResponseTo(ip, st, a) ==
    [ip |-> ip, status |-> st, allowed |-> TRUE, remaining |-> a.remaining,
     wait_seconds |-> a.wait_seconds]
NoResponse ==
    [ip |-> "none", status |-> 0, allowed |-> FALSE, remaining |-> 0,
     wait_seconds |-> 0]

NoFailures == [t \in LoginTimes |-> 0]

\* POST /api/login from ip; good: the credentials are the administrator's.
\* The handler has no await: it runs from the check to its response.
login(ip, good) ==
    /\ loop = Idle
    /\ LET a == check_login_rate_limit(rate_limit[ip], clock)
       IN IF ~a.allowed
          THEN /\ rate_limit' = [rate_limit EXCEPT ![ip] = a.record]
               /\ resp' = Response429(ip, a)
               /\ failed' = failed
          ELSE IF ~good
          THEN /\ rate_limit' = [rate_limit EXCEPT ![ip] = a.record]
               /\ resp' = ResponseTo(ip, 401, a)
               /\ failed' = [failed EXCEPT ![ip][clock] = @ + 1]
          ELSE /\ rate_limit' = [rate_limit EXCEPT ![ip] = NoRecord]
               /\ resp' = ResponseTo(ip, 200, a)
               /\ failed' = [failed EXCEPT ![ip] = NoFailures]
    /\ clock' = clock
    /\ UNCHANGED sync_vars
    /\ UNCHANGED coll_vars
    /\ UNCHANGED hc

\* Time passes between two requests; the responses older than the window's
\* length are forgotten.
Recent(f, t) ==
    [s \in LoginTimes |-> IF s + LOGIN_WINDOW_SECONDS > t THEN f[s] ELSE 0]

Advance ==
    /\ \E t \in LoginTimes :
          /\ t > clock
          /\ clock' = t
          /\ failed' = [ip \in Ips |-> Recent(failed[ip], t)]
    /\ UNCHANGED <<rate_limit, resp>>
    /\ UNCHANGED sync_vars
    /\ UNCHANGED coll_vars
    /\ UNCHANGED hc

(* ------------------------------ the system ----------------------------- *)

StaleDoc ==
    JsonFile("compact",
      << Inbound("vless", "reality", TRUE, VlessReality(<<2>>), "vless-reality"),
         Inbound("vless", "plain", FALSE, <<>>, "vless-ws"),
         Inbound("hysteria2", "absent", TRUE, Hy2Users(<<2, 1>>), "hy2"),
         Inbound("mixed", "absent", TRUE, <<[username |-> "lan"]>>, "mixed") >>)

NullTlsDoc ==
    JsonFile("indent2",
      << Inbound("hysteria2", "absent", FALSE, <<>>, "hy2"),
         Inbound("vless", "null", TRUE, <<>>, "vless-null") >>)

InitDocs == {StaleDoc, NullTlsDoc, Absent}

\* User 1 never expires; user 2 is missing, or expires at time MaxTime.
InitDirs ==
    { [u \in UserIds |-> IF u = 1 THEN UserRow(TRUE, TRUE, 0, 0, NoExpiry) ELSE r] :
        r \in { UserRow(FALSE, FALSE, 0, 0, NoExpiry),
                UserRow(TRUE, TRUE, 0, 0, MaxTime) } }

InitRest ==
    /\ logs = <<>>
    /\ bak = Absent
    /\ loop = Idle
    /\ hs = [h \in Handlers |-> HandlerIdle]
    /\ sy = [h \in Handlers |-> SyncIdle]
    /\ conn_tracker = [c \in ConnIds |-> Untracked]
    /\ outbound_traffic = [o \in Outbounds |-> NoTraffic]
    /\ co = CollectorStart
    /\ hc = HealthIdle
    /\ rate_limit = [ip \in Ips |-> NoRecord]
    /\ clock = 0
    /\ resp = NoResponse
    /\ failed = [ip \in Ips |-> NoFailures]

\* The synchronizer and the handlers, with the collector not yet awake.
Init ==
    /\ users \in InitDirs
    /\ now = 0
    /\ doc \in InitDocs
    /\ InitRest

Next ==
    \/ \E h \in Handlers : Arrive(h, {"system_reload", "toggle_user"})
    \/ \E h \in Handlers : Start(h)
    \/ \E h \in Handlers : SyncStep(h)
    \/ \E h \in Handlers : Finish(h)
    \/ Tick
    \/ Crash

Spec == Init /\ [][Next]_vars

\* The collector beside the reset-traffic handler, on a host without a
\* config document: user 1 has a quota, and connection c1 is attributed to
\* user 1 and leaves through wg-jp.
Quota == MaxUsed - 1

C1Snapshots ==
    {<<>>, <<BadConn("c1")>>}
    \cup { <<Conn("c1", up, down, Uuid(1), "wg-jp")>> :
              up \in 0..MaxBytes, down \in 0..MaxBytes }

InitColl ==
    /\ users = [u \in UserIds |->
                  IF u = 1 THEN UserRow(TRUE, TRUE, Quota, 0, NoExpiry)
                  ELSE UserRow(FALSE, FALSE, 0, 0, NoExpiry)]
    /\ now = 0
    /\ doc = Absent
    /\ InitRest

NextColl ==
    \/ CollectorWake
    \/ CollectorSkip
    \/ CollectorCycle(C1Snapshots)
    \/ CollectorCancel
    \/ Arrive("h1", {"reset_traffic"})
    \/ Start("h1")
    \/ SyncExists("h1")
    \/ Finish("h1")

SpecColl == InitColl /\ [][NextColl]_vars

\* The eligibility query on every row: user 1 is any row of the bounded
\* table, the clock any time, and the reload handler runs the synchronizer.
SmallDoc ==
    JsonFile("indent2", << Inbound("vless", "plain", TRUE, <<>>, "vless-ws") >>)

AllRows ==
    { UserRow(TRUE, e, l, t, x) :
        e \in BOOLEAN, l \in (0 - 1)..MaxUsed, t \in 0..MaxUsed,
        x \in {NoExpiry} \cup 0..MaxTime }

InitElig ==
    /\ users \in { [u \in UserIds |-> IF u = 1 THEN r ELSE NoRow] : r \in AllRows }
    /\ now \in 0..MaxTime
    /\ doc = SmallDoc
    /\ InitRest

NextElig ==
    \/ Arrive("h1", {"system_reload"})
    \/ Start("h1")
    \/ SyncStep("h1")
    \/ Finish("h1")

SpecElig == InitElig /\ [][NextElig]_vars

\* ---- The five handlers that change a user, one request at a time ----
CrudDoc ==
    JsonFile("indent2",
      << Inbound("vless", "reality", TRUE, VlessReality(<<2>>), "vless-reality"),
         Inbound("hysteria2", "absent", FALSE, <<>>, "hy2") >>)

MutationOps ==
    {"create_user", "update_user", "delete_user", "toggle_user", "reset_traffic"}

\* User 1 exists with some usage and an expiry ahead, user 2 does not exist
\* yet.
InitCrud ==
    /\ users = [u \in UserIds |-> IF u = 1 THEN UserRow(TRUE, TRUE, 0, 1, MaxTime)
                                   ELSE NoRow]
    /\ now = 0
    /\ doc = CrudDoc
    /\ InitRest

NextCrud ==
    \/ Arrive("h1", MutationOps)
    \/ Start("h1")
    \/ SyncStep("h1")
    \/ Finish("h1")

SpecCrud == InitCrud /\ [][NextCrud]_vars

\* ---- The synchronizer and the collector in one process ----
LiveSnapshots == { <<Conn("c1", up, 0, Uuid(1), "wg-jp")>> : up \in 1..MaxBytes }

\* User 1 has a quota and no usage yet; the document lists nobody.
InitLive ==
    /\ users = [u \in UserIds |->
                  IF u = 1 THEN UserRow(TRUE, TRUE, Quota, 0, NoExpiry) ELSE NoRow]
    /\ now = 0
    /\ doc = SmallDoc
    /\ InitRest

NextLive ==
    \/ Arrive("h1", {"system_reload", "reset_traffic"})
    \/ Start("h1")
    \/ SyncStep("h1")
    \/ Finish("h1")
    \/ CollectorWake
    \/ CollectorCycle(LiveSnapshots)

SpecLive == InitLive /\ [][NextLive]_vars

\* ---- Login requests of the client IPs, at the instants of LoginTimes ----
InitLogin ==
    /\ users = [u \in UserIds |-> NoRow]
    /\ now = 0
    /\ doc = Absent
    /\ InitRest

NextLogin ==
    \/ \E ip \in Ips, good \in BOOLEAN : login(ip, good)
    \/ Advance

SpecLogin == InitLogin /\ [][NextLogin]_vars

\* The collector alone, on two connections: c1 is attributed to user 1 by
\* uuid and leaves through wg-jp; c2 is attributed to user 2 by hy2 password,
\* or to a key no user has, and leaves through direct.  A snapshot holds at
\* most one entry of c1, then at most one more entry: one of c2, one with an
\* empty id, or one the loop body raises on.
TrackFirst ==
    {<<>>} \cup { <<Conn("c1", up, 0, Uuid(1), "wg-jp")>> : up \in 1..MaxBytes }

TrackSecond ==
    {<<>>, <<BadConn("c2")>>, <<Conn("", 1, 0, Uuid(1), "wg-jp")>>}
    \cup { <<Conn("c2", 1, 0, k, "direct")>> :
              k \in {Hy2(2), Unknown} }

TrackSnapshots == { a \o b : a \in TrackFirst, b \in TrackSecond }

InitTrack ==
    /\ users = [u \in UserIds |-> UserRow(TRUE, TRUE, 0, 0, NoExpiry)]
    /\ now = 0
    /\ doc = Absent
    /\ InitRest

NextTrack ==
    \/ CollectorWake
    \/ CollectorSkip
    \/ CollectorCycle(TrackSnapshots)
    \/ CollectorCancel

SpecTrack == InitTrack /\ [][NextTrack]_vars

\* The same with the scheduling the loop provides: a sleep of the collector
\* ends, and the event loop, which nothing else occupies here, resumes it.
SpecTrackLive == SpecTrack /\ WF_vars(CollectorWake)

\* ---- The collector with no malformed entry and no unknown key ----
OwedSecond == {<<>>, <<Conn("c2", 1, 0, Hy2(2), "direct")>>}

OwedSnapshots == { a \o b : a \in TrackFirst, b \in OwedSecond }

NextOwed ==
    \/ CollectorWake
    \/ CollectorCycle(OwedSnapshots)

SpecOwed == InitTrack /\ [][NextOwed]_vars

\* Calls of the tunnel health checker, one after the other.
InitHealth ==
    /\ users = [u \in UserIds |-> NoRow]
    /\ now = 0
    /\ doc = Absent
    /\ InitRest

NextHealth ==
    \/ HealthCall
    \/ HealthListing
    \/ HealthProbe
    \/ HealthReturn
    \/ HealthFinish

SpecHealth == InitHealth /\ [][NextHealth]_vars

(* ------------------------------ the claims ----------------------------- *)

Returned(h) == At(h, "returned")
Written(h) == Dumps(sy[h].config)

C2_ReloadOnlyAfterValidation ==
    \A h \in Handlers :
        /\ sy[h].pc = "reload" => (sy[h].check = "pass" /\ sy[h].checked = doc)
        /\ sy[h].reload # "none" => sy[h].check = "pass"
        /\ sy[h].reloaded # Absent => sy[h].reloaded = sy[h].checked

\* The daemon has been reloaded with the document on disk.
C2_Witness ==
    \E h \in Handlers :
        /\ sy[h].reload = "ok" /\ sy[h].reloaded = doc /\ doc # sy[h].pre

\* C3: the calls of the synchronizer never interleave: while one call is
\* between its first statement and its return, no other call is.
InSync(h) == Running(h) /\ sy[h].pc \notin {"idle", "returned", "raised"}

C3_SyncCallsSerialized ==
    \A h1, h2 \in Handlers :
        (h1 # h2 /\ InSync(h1)) => ~Running(h2)

\* Two overlapping requests: one has written the document and not yet
\* validated it while the other has arrived and waits.
C3_Witness ==
    \E h1, h2 \in Handlers :
        /\ h1 # h2 /\ At(h1, "check") /\ hs[h2].st = "pending"

\* C4: idempotence.  WrittenBy(A) are the documents the synchronizer writes for
\* the active-user list A.  A call that finds such a document, computes the
\* same list A and returns, returns with the document as it found it.
WrittenBy(act) ==
    { Dumps(Mutate(d.inbounds, act)) :
        d \in {x \in InitDocs : x.kind = "json" /\ ~MutateRaises(x.inbounds)} }

C4_SyncIdempotent ==
    \A h \in Handlers :
        (Returned(h) /\ sy[h].pre \in WrittenBy(sy[h].active_users))
            => doc = sy[h].pre

\* A second successful run with a non-empty active set.
C4_Witness ==
    \E h \in Handlers :
        /\ Returned(h) /\ sy[h].result.ok
        /\ sy[h].active_users # <<>>
        /\ sy[h].pre \in WrittenBy(sy[h].active_users)
        /\ doc = sy[h].pre

\* C5: whatever a call has done to the document, the listeners keep their
\* number, order, type, tls section and other fields, and a listener that is
\* neither vless nor hysteria2 keeps its users list too.
SameButUsers(a, b) == a.type = b.type /\ a.tls = b.tls /\ a.tag = b.tag

C5_OnlyCredentialListsChange ==
    \A h \in Handlers :
        (Running(h) /\ sy[h].pre.kind = "json" /\ doc.kind = "json")
            => /\ Len(doc.inbounds) = Len(sy[h].pre.inbounds)
               /\ \A i \in 1..Len(doc.inbounds) :
                     /\ SameButUsers(doc.inbounds[i], sy[h].pre.inbounds[i])
                     /\ doc.inbounds[i].type \notin {"vless", "hysteria2"}
                           => doc.inbounds[i] = sy[h].pre.inbounds[i]

\* A successful call that changed the credential lists of a document holding
\* a listener of another type.
C5_Witness ==
    \E h \in Handlers :
        /\ Returned(h) /\ sy[h].result.ok
        /\ doc.inbounds # sy[h].pre.inbounds
        /\ \E i \in 1..Len(doc.inbounds) : doc.inbounds[i].type = "mixed"

\* C6: when the validation passes and the reload command exits non-zero, the
\* call returns a failure, the document stays the one written and validated,
\* and no audit entry is added.
C6_ReloadFailureKeepsDocument ==
    \A h \in Handlers :
        (Returned(h) /\ sy[h].reload = "fail")
            => /\ ~sy[h].result.ok
               /\ doc = Written(h)
               /\ doc = sy[h].checked
               /\ Len(logs) = sy[h].nlogs

\* A failed reload after a write that changed the document.
C6_Witness ==
    \E h \in Handlers :
        /\ Returned(h) /\ sy[h].reload = "fail"
        /\ doc # sy[h].pre /\ doc = Written(h)

\* C7: no failure of a step is raised past sync_users_to_singbox.
C7_NeverRaises ==
    \A h \in Handlers : sy[h].pc # "raised"


\* C8 (as amended): a row is in the list get_active_users returns iff it is
\* enabled, its expire_at is absent or not before now, and its traffic_limit
\* is not positive or its traffic_used is below it.
InList(u, list) == \E i \in DOMAIN list : list[i] = u

C8_EligibilityAsCoded ==
    \A h \in Handlers : \A u \in UserIds :
        (At(h, "mutate") /\ users[u].present)
            => (InList(u, sy[h].active_users)
                  <=> /\ users[u].enabled
                      /\ users[u].expire_at = NoExpiry \/ users[u].expire_at >= now
                      /\ users[u].traffic_limit <= 0
                            \/ users[u].traffic_used < users[u].traffic_limit)

\* C8 as stated: ... expire_at absent or expire_at > now, and traffic_limit = 0
\* or traffic_used < traffic_limit.
C8_EligibilityAsStated ==
    \A h \in Handlers : \A u \in UserIds :
        (At(h, "mutate") /\ users[u].present)
            => (InList(u, sy[h].active_users)
                  <=> /\ users[u].enabled
                      /\ users[u].expire_at = NoExpiry \/ users[u].expire_at > now
                      /\ users[u].traffic_limit = 0
                            \/ users[u].traffic_used < users[u].traffic_limit)

\* The query has returned a user whose expire_at equals now.
C8_Witness ==
    \E h \in Handlers :
        /\ At(h, "mutate") /\ sy[h].active_users = <<1>>
        /\ users[1].expire_at = now
        /\ users[1].traffic_limit > 0

\* C9: an enabled, never-expiring user with a quota L > 0 is in the active set
\* exactly while traffic_used < L: it is out once the collector's usage writes
\* have brought traffic_used to L or more, and in again while and after the
\* reset-traffic handler has set traffic_used to 0.
HasQuota(r) ==
    r.present /\ r.enabled /\ r.expire_at = NoExpiry /\ r.traffic_limit > 0

C9_QuotaExcludesResetIncludes ==
    /\ \A u \in UserIds :
          HasQuota(users[u])
              => (u \in ActiveSet(users, now)
                    <=> users[u].traffic_used < users[u].traffic_limit)
    /\ \A h \in Handlers :
          (Running(h) /\ hs[h].op = "reset_traffic")
              => /\ users[hs[h].uid].traffic_used = 0
                 /\ HasQuota(hs[h].user) => hs[h].uid \in ActiveSet(users, now)

\* The reset handler found the user at or over the quota, which only the
\* collector's writes can have caused, and the user is active again.
C9_Witness ==
    \E h \in Handlers :
        /\ Returned(h) /\ hs[h].op = "reset_traffic"
        /\ HasQuota(hs[h].user)
        /\ hs[h].user.traffic_used >= hs[h].user.traffic_limit
        /\ hs[h].uid \in ActiveSet(users, now)

\* C10: when a cycle succeeds on a connection that was tracked, with counters
\* that did not decrease, the user's traffic_used grows by (upload difference
\* + download difference) and the egress accumulators by the two differences:
\* what the previous poll already counted is not counted again.
CycleOk == co.pc = "fetch" /\ co'.pc = "sleep" /\ co'.status = "ok"

C10_DeltasPerDimension ==
    [][ (CycleOk /\ conn_tracker["c1"].seen /\ conn_tracker'["c1"].seen)
          => LET up_diff == conn_tracker'["c1"].upload - conn_tracker["c1"].upload
                 down_diff == conn_tracker'["c1"].download
                                  - conn_tracker["c1"].download
             IN (up_diff >= 0 /\ down_diff >= 0)
                  => /\ users'[1].traffic_used
                           = users[1].traffic_used + up_diff + down_diff
                     /\ outbound_traffic'["wg-jp"].upload
                           = outbound_traffic["wg-jp"].upload + up_diff
                     /\ outbound_traffic'["wg-jp"].download
                           = outbound_traffic["wg-jp"].download + down_diff ]_vars

\* Connection c1 stands at (2, 1), the egress has received exactly (2, 1), and
\* the last, successful cycle left the user at 2: an earlier poll had tracked
\* the connection, and the later cycles added differences only.
C10_Witness ==
    /\ co.status = "ok"
    /\ conn_tracker["c1"] = Sample(2, 1, Uuid(1), "wg-jp")
    /\ outbound_traffic["wg-jp"] = [upload |-> 2, download |-> 1]
    /\ users[1].traffic_used = 2

\* C11: no collector step lowers an egress accumulator: in every step each
\* egress's upload total and download total stay or grow, also in a cycle in
\* which a connection's cumulative counter is lower than at the previous poll.
C11_EgressMonotone ==
    [][ \A o \in Outbounds :
          /\ outbound_traffic'[o].upload >= outbound_traffic[o].upload
          /\ outbound_traffic'[o].download >= outbound_traffic[o].download ]_vars

\* Connection c1 was polled at (2, 0) and then at (0, 2): its upload counter
\* fell by 2, the upload total kept its 2, and the download total grew by 2.
C11_Witness ==
    /\ co.status = "ok"
    /\ conn_tracker["c1"] = Sample(0, 2, Uuid(1), "wg-jp")
    /\ outbound_traffic["wg-jp"] = [upload |-> 2, download |-> 2]
    /\ users[1].traffic_used = 2

\* C12: in a cycle that has processed its snapshot, the tracked table becomes
\* exactly the non-empty ids of the snapshot, and a tracked connection that is
\* not in the snapshot adds nothing to its user or to its egress.
Ids(snap) == {snap[i].id : i \in DOMAIN snap} \ {""}

Processed ==
    /\ co.pc = "fetch" /\ co'.pc # "fetch"
    /\ co'.status \in {"ok", "write_failed"}

Dropped(c) == conn_tracker[c].seen /\ c \notin Ids(co'.connections)

C12_AbsentIdDropped ==
    [][ Processed
          => /\ \A c \in ConnIds :
                   conn_tracker'[c].seen <=> c \in Ids(co'.connections)
             /\ Dropped("c1")
                   => /\ users'[1] = users[1]
                      /\ outbound_traffic'["wg-jp"] = outbound_traffic["wg-jp"]
             /\ Dropped("c2")
                   => /\ users'[2] = users[2]
                      /\ outbound_traffic'["direct"] = outbound_traffic["direct"]
      ]_vars

\* Connection c1 had been tracked and counted (2 bytes through wg-jp), the
\* last snapshot held only c2, and the table now holds only c2.
C12_Witness ==
    /\ co.status = "ok"
    /\ co.connections = <<Conn("c2", 1, 0, Hy2(2), "direct")>>
    /\ ~conn_tracker["c1"].seen /\ conn_tracker["c2"].seen
    /\ outbound_traffic["wg-jp"].upload = 2
    /\ users[1].traffic_used = 2

\* C13: a failure inside a cycle (the GET raises, a status other than 200, an
\* entry the loop body raises on, a failed usage write) does not end the
\* task: the task has ended only if it was cancelled, and after a failed cycle
\* it starts another cycle unless it is cancelled first.
CycleFailed ==
    /\ co.pc \in {"sleep", "backoff"}
    /\ co.status \in {"error", "skipped", "raised", "write_failed"}

C13_LoopSurvivesFailures ==
    /\ [](co.pc = "done" => co.status = "cancelled")
    /\ (CycleFailed ~> co.pc \in {"fetch", "done"})

\* A cycle has added to wg-jp without crediting user 1 (it raised after the
\* entry of c1, or its usage write failed), and a later cycle has completed.
C13_Witness ==
    /\ co.pc = "sleep" /\ co.status = "ok"
    /\ conn_tracker["c1"] = Sample(1, 0, Uuid(1), "wg-jp")
    /\ outbound_traffic["wg-jp"].upload = 2
    /\ users[1].traffic_used = 1

\* C14: a cancellation reaches the task at one of its awaits and ends it: the
\* step that cancels changes neither the tracked table nor the egress
\* accumulators nor the users table, no step changes them afterwards, and
\* whenever one of them changes, the changing step is a cycle that ran from
\* the response of its GET to the sleep after it.
CollectorData == <<conn_tracker, outbound_traffic, users>>

C14_CancelBetweenCycles ==
    [][ /\ co'.status = "cancelled"
            => /\ co'.pc = "done"
               /\ co.pc \in CancelPoints \cup {"done"}
               /\ UNCHANGED CollectorData
        /\ co.pc = "done" => co'.pc = "done"
        /\ CollectorData' # CollectorData
            => co.pc = "fetch" /\ co'.pc \in {"sleep", "backoff"} ]_vars

\* The task was cancelled after a cycle that counted both connections: the
\* table, the accumulators and the usage all hold that cycle.
C14_Witness ==
    /\ co.pc = "done"
    /\ co.connections = <<Conn("c1", 2, 0, Uuid(1), "wg-jp"),
                          Conn("c2", 1, 0, Hy2(2), "direct")>>
    /\ conn_tracker["c1"].seen /\ conn_tracker["c2"].seen
    /\ outbound_traffic["wg-jp"].upload = 2
    /\ outbound_traffic["direct"].upload = 1
    /\ users[1].traffic_used = 2 /\ users[2].traffic_used = 1

\* C15: the users table changes only by whole batches: a step that changes
\* any traffic_used is a cycle's usage write, and after it every user of the
\* cycle's batch has received its delta; a failed write leaves every row as
\* it was.  Between two states no reader sees part of a batch.
C15_UsageWriteAtomic ==
    [][ users' # users
          => /\ co.pc = "fetch" /\ co'.status = "ok"
             /\ users' = Credit(Process(co'.connections).ud) ]_vars

\* One cycle has credited user 1 (by uuid) and user 2 (by hy2 password).
C15_Witness ==
    /\ co.pc = "sleep" /\ co.status = "ok"
    /\ co.connections = <<Conn("c1", 1, 0, Uuid(1), "wg-jp"),
                          Conn("c2", 1, 0, Hy2(2), "direct")>>
    /\ users[1].traffic_used = 1 /\ users[2].traffic_used = 1

\* C16 (as amended): when the listing was fetched, the result has one entry
\* for each tag that is in the listing, in the order of tunnel_tags, also when
\* a probe has raised; and the entry of every tag whose own probe was
\* answered has the type of its own listing entry and the liveness and delay
\* its own probe gives.
Listed(t) == hc.proxies[t].listed
ResultTags == [i \in DOMAIN hc.tunnels |-> hc.tunnels[i].tag]
HealthReturned == hc.pc = "returned" /\ hc.listing = "ok"

C16_ProbeFailureIsolated ==
    HealthReturned
        => /\ ResultTags = SelectSeq(tunnel_tags, Listed)
           /\ \A i \in DOMAIN hc.tunnels :
                 LET e == hc.tunnels[i]
                     out == hc.probes[e.tag]
                 IN /\ e.type = hc.proxies[e.tag].type
                    /\ out = "ok" => e.alive /\ e.delay = MeasuredDelay
                    /\ out = "status"
                          => ~e.alive /\ e.delay = hc.proxies[e.tag].delay

\* C16 as stated: ... the result has one entry per requested tag, in order.
C16_EntryPerRequestedTag ==
    (HealthReturned /\ \E t \in Tags : hc.probes[t] = "raised")
        => ResultTags = tunnel_tags

\* The probe of wg-jp raised, wg-sg is not in the listing, and direct, which
\* the listing reported as not alive, answered its probe.
C16_Witness ==
    /\ HealthReturned
    /\ hc.probes["wg-jp"] = "raised"
    /\ ~Listed("wg-sg")
    /\ hc.proxies["direct"] = Proxy(FALSE, LastDelay)
    /\ Len(hc.tunnels) = 2
    /\ hc.tunnels[2] = [tag |-> "direct", type |-> "WireGuard", alive |-> TRUE,
                        delay |-> MeasuredDelay]

\* C17: in the result, a tag whose probe succeeded is alive with the measured
\* delay, and a tag whose probe raised, timed out or answered another status
\* than 200 is not alive and has the delay of the listing.
C17_ProbeDecidesLiveness ==
    HealthReturned
        => \A i \in DOMAIN hc.tunnels :
              LET e == hc.tunnels[i]
                  out == hc.probes[e.tag]
              IN /\ out = "ok" => e.alive /\ e.delay = MeasuredDelay
                 /\ out \in {"status", "raised"}
                       => ~e.alive /\ e.delay = hc.proxies[e.tag].delay

\* C18: the config document is never half-written without recovery: in every
\* state, also after a crash during the write and after later calls of the
\* synchronizer, the document is complete or the backup is a complete
\* document.
C18_CrashSafe ==
    doc.kind = "partial" => bak.kind = "json"

\* C19: when the config document is absent, the call's first step returns the
\* config-missing failure and nothing else has happened: the document, the
\* backup and the audit table are unchanged and neither command has run.
C19_ConfigMissingNoEffect ==
    [][ \A h \in Handlers :
          (At(h, "exists") /\ doc.kind = "absent"
             /\ sy'[h] # sy[h] /\ hs'[h].st = "running")
              => /\ sy'[h].pc = "returned"
                 /\ sy'[h].result = Fail("config_missing")
                 /\ sy'[h].check = "none" /\ sy'[h].reload = "none"
                 /\ UNCHANGED <<doc, bak, logs>> ]_vars

\* A call has returned the config-missing failure on a host without document.
C19_Witness ==
    \E h \in Handlers :
        /\ Returned(h) /\ sy[h].pre = Absent
        /\ sy[h].result = Fail("config_missing")
        /\ doc = Absent /\ bak = Absent /\ logs = <<>>

\* C20: in a call that found the config document present, the backup equals
\* the document as the call found it (formatting included) from the moment
\* the document differs from it, and when the call returns, however it ends.
C20_BackupHoldsPreSync ==
    \A h \in Handlers :
        (Running(h) /\ sy[h].pre.kind # "absent"
           /\ (doc # sy[h].pre \/ Returned(h)))
            => bak = sy[h].pre

\* A call found a document an earlier call had written (so a backup of an
\* older document existed), changed it, failed at the reload and returned.
C20_Witness ==
    \E h \in Handlers :
        /\ Returned(h) /\ sy[h].reload = "fail"
        /\ sy[h].pre.kind = "json" /\ sy[h].pre.fmt = "indent2"
        /\ Len(sy[h].pre.inbounds) = Len(StaleDoc.inbounds)
        /\ doc # sy[h].pre
        /\ bak = sy[h].pre

\* C21: a call in which a step raised an exception (reading, backing up,
\* mutating, writing, validating, reloading) returns a failure result with
\* the document as the call found it.
HitException(h) ==
    \/ At(h, "raised")
    \/ Returned(h) /\ sy[h].result = Fail("exception")

C21_ExceptionRestoresAndReturns ==
    \A h \in Handlers :
        HitException(h) => /\ Returned(h)
                           /\ ~sy[h].result.ok
                           /\ doc = sy[h].pre

\* C22: when the validation passed and the reload command timed out, the call
\* returns a failure and the document stays the one written and validated.
C22_ReloadTimeoutKeepsDocument ==
    \A h \in Handlers :
        (Returned(h) /\ sy[h].reload = "timeout")
            => /\ ~sy[h].result.ok
               /\ doc = Written(h)
               /\ doc = sy[h].checked

\* C23: when the call has written the document, every vless and every
\* hysteria2 listener has a users list with exactly one entry per user of the
\* active-user query, in the query's order: uuid and flow for a vless
\* listener with Reality enabled, uuid alone for another vless listener,
\* password alone for hysteria2; and the query's list is the list of the
\* users that are active in the table.
Credential(inb, u) ==
    IF inb.type = "hysteria2" THEN [password |-> Hy2(u)]
    ELSE IF inb.tls = "reality" THEN [uuid |-> Uuid(u), flow |-> Flow]
    ELSE [uuid |-> Uuid(u)]

C23_OneEntryPerActiveUser ==
    \A h \in Handlers :
        At(h, "check")
            => LET a == sy[h].active_users
               IN /\ doc.kind = "json"
                  /\ \E t \in 0..now : a = get_active_users(users, t)
                  /\ \A i \in DOMAIN doc.inbounds :
                        LET inb == doc.inbounds[i]
                        IN inb.type \in {"vless", "hysteria2"}
                              => /\ inb.hasUsers
                                 /\ Len(inb.users) = Len(a)
                                 /\ \A j \in DOMAIN a :
                                       inb.users[j] = Credential(inb, a[j])

\* The document just written lists users 1 and 2 in its three credentialed
\* listeners, where it had listed user 2 alone, nobody, and users 2 and 1.
C23_Witness ==
    \E h \in Handlers :
        /\ At(h, "check")
        /\ sy[h].pre = StaleDoc
        /\ sy[h].active_users = <<1, 2>>
        /\ doc.inbounds[1].users = <<[uuid |-> Uuid(1), flow |-> Flow],
                                     [uuid |-> Uuid(2), flow |-> Flow]>>
        /\ doc.inbounds[2].users = <<[uuid |-> Uuid(1)], [uuid |-> Uuid(2)]>>
        /\ doc.inbounds[3].users = <<[password |-> Hy2(1)], [password |-> Hy2(2)]>>

\* C24: a call that has returned has added exactly one "sync_users" entry to
\* the audit table if its result is a success and none if it is a failure; a
\* success means both commands exited 0, and its count is the number of
\* entries written into each credential list.
C24_AuditIffSuccess ==
    \A h \in Handlers :
        Returned(h)
            => /\ sy[h].result.ok
                  => /\ logs = Append(SubSeq(logs, 1, sy[h].nlogs), "sync_users")
                     /\ sy[h].check = "pass" /\ sy[h].reload = "ok"
                     /\ sy[h].result.active_users = Len(sy[h].active_users)
                     /\ \A i \in DOMAIN doc.inbounds :
                           doc.inbounds[i].type \in {"vless", "hysteria2"}
                              => Len(doc.inbounds[i].users)
                                    = sy[h].result.active_users
               /\ ~sy[h].result.ok => Len(logs) = sy[h].nlogs
               /\ (sy[h].check = "pass" /\ sy[h].reload = "ok"
                      /\ sy[h].result # Fail("exception"))
                     => sy[h].result.ok

\* A successful call, the second one to be recorded, that wrote two users.
C24_Witness ==
    \E h \in Handlers :
        /\ Returned(h) /\ sy[h].result = Ok(2)
        /\ sy[h].nlogs = 1
        /\ logs = <<"sync_users", "sync_users">>

\* The row of handler h's user holds the handler's change: what the handler
\* assigned to the row it loaded (hs[h].user) has been committed.
Committed(h) ==
    LET r == users[hs[h].uid]
        before == hs[h].user
        req == hs[h].req
    IN CASE hs[h].op = "create_user" ->
              /\ ~before.present
              /\ r = UserRow(TRUE, TRUE, req.value, 0, NoExpiry)
         [] hs[h].op = "delete_user" -> ~r.present
         [] hs[h].op = "toggle_user" -> r = [before EXCEPT !.enabled = ~before.enabled]
         [] hs[h].op = "reset_traffic" -> r = [before EXCEPT !.traffic_used = 0]
         [] hs[h].op = "update_user" ->
              CASE req.field = "enabled" ->
                     r = [before EXCEPT !.enabled = (req.value = 1)]
                [] req.field = "traffic_limit" ->
                     r = [before EXCEPT !.traffic_limit = req.value]
                [] req.field = "expire_days" ->
                     r = [before EXCEPT !.expire_at =
                                           IF req.value < 0 THEN NoExpiry ELSE now]
                [] OTHER -> FALSE
         [] OTHER -> FALSE

\* The credential lists of the document are the projection of the users that
\* are active in the directory as it is now.
ListsFollowDirectory ==
    /\ doc.kind = "json"
    /\ LET a == get_active_users(users, now)
       IN \A i \in 1..Len(doc.inbounds) :
             LET inb == doc.inbounds[i]
             IN inb.type \in {"vless", "hysteria2"} =>
                   /\ inb.hasUsers
                   /\ inb.users = [j \in 1..Len(a) |-> Credential(inb, a[j])]

\* C25: when a handler that changes a user (create, update, delete, toggle,
\* reset-traffic) has its synchronizer call back with a successful result,
\* the handler's change is already committed, and the credential lists of
\* the live document are the projection of the active set after that change.
C25_SyncAfterCommit ==
    \A h \in Handlers :
        (Returned(h) /\ hs[h].op \in MutationOps /\ sy[h].result.ok)
            => /\ Committed(h)
               /\ ListsFollowDirectory

\* A create_user whose new user 2 is in both credential lists behind user 1.
C25_Witness ==
    \E h \in Handlers :
        /\ Returned(h)
        /\ hs[h].op = "create_user"
        /\ hs[h].uid = 2
        /\ sy[h].result = Ok(2)
        /\ doc.kind = "json"
        /\ doc.inbounds[1].users = VlessReality(<<1, 2>>)
        /\ doc.inbounds[2].users = Hy2Users(<<1, 2>>)

\* C26: a cycle whose GET fails (it raises, or the status is not 200) changes
\* neither the tracked table nor an egress accumulator nor a user's
\* traffic_used, and leaves the task at a sleep, from which the next cycle
\* starts with the samples of the last poll that was processed.
FetchFailed == co.pc = "fetch" /\ co'.status \in {"error", "skipped"}

C26_FailedFetchChangesNothing ==
    [][ FetchFailed
          => /\ UNCHANGED CollectorData
             /\ co'.pc \in {"sleep", "backoff"} ]_vars

\* The GET was answered with a status other than 200 while c1 is tracked and
\* its traffic is in wg-jp and in user 1's usage.
C26_Witness ==
    /\ co.pc = "backoff" /\ co.status = "skipped"
    /\ conn_tracker["c1"] = Sample(2, 0, Uuid(1), "wg-jp")
    /\ outbound_traffic["wg-jp"].upload = 2
    /\ users[1].traffic_used = 2

\* C27: in a cycle that completes, a connection of the snapshot whose id is
\* not in the tracked table (seen for the first time, or dropped earlier and
\* seen again) adds its whole upload and download counters to its user's
\* traffic_used and to its egress accumulator.  In these snapshots c1 belongs
\* to user 1 and leaves by wg-jp, and nothing else does.
FirstSeen(c) == c.id = "c1" /\ ~conn_tracker["c1"].seen

C27_FirstObservationFullCounters ==
    [][ (co.pc = "fetch" /\ co'.status = "ok")
          => \A i \in 1..Len(co'.connections) :
                LET c == co'.connections[i]
                IN FirstSeen(c) =>
                     /\ users'[1].traffic_used
                           = users[1].traffic_used + c.upload + c.download
                     /\ outbound_traffic'["wg-jp"].upload
                           = outbound_traffic["wg-jp"].upload + c.upload
                     /\ outbound_traffic'["wg-jp"].download
                           = outbound_traffic["wg-jp"].download + c.download ]_vars

\* c1 was counted with 2 bytes, left the snapshot, and is counted again with
\* its whole counter of 1.
C27_Witness ==
    /\ co.pc = "sleep" /\ co.status = "ok"
    /\ co.connections = <<Conn("c1", 1, 0, Uuid(1), "wg-jp")>>
    /\ conn_tracker["c1"] = Sample(1, 0, Uuid(1), "wg-jp")
    /\ users[1].traffic_used = MaxUsed
    /\ outbound_traffic["wg-jp"].upload = MaxUsed

\* C28: a cycle whose usage write fails changes no user's traffic_used, also
\* not that of the users credited before the failure, and leaves the task at
\* the sleep before the next cycle.
WriteFailed == co.pc = "fetch" /\ co'.status = "write_failed"

C28_WriteFailureRollsBack ==
    [][ WriteFailed => /\ users' = users
                       /\ co'.pc = "sleep" ]_vars

\* The write of a batch for both users has failed: neither has any usage,
\* while both connections are tracked.
C28_Witness ==
    /\ co.pc = "sleep" /\ co.status = "write_failed"
    /\ co.connections = <<Conn("c1", 2, 0, Uuid(1), "wg-jp"),
                          Conn("c2", 1, 0, Hy2(2), "direct")>>
    /\ conn_tracker["c1"].seen /\ conn_tracker["c2"].seen
    /\ users[1].traffic_used = 0 /\ users[2].traffic_used = 0

\* C29: in a cycle that completes with a positive delta under a key that
\* matches no user by uuid or hy2_password, that key is passed over and every
\* user still gets the deltas of the keys that match it.
HasMiss(ud) == \E k \in Keys : ud[k] > 0 /\ Lookup(k) = 0

C29_LookupMissSkipped ==
    [][ (co.pc = "fetch" /\ co'.status = "ok"
           /\ HasMiss(Process(co'.connections).ud))
          => \A u \in UserIds :
                users'[u].traffic_used
                   = users[u].traffic_used
                       + Process(co'.connections).ud[Uuid(u)]
                       + Process(co'.connections).ud[Hy2(u)] ]_vars

\* One cycle with c1 of user 1 and c2 under a key of no user: user 1 is
\* credited, user 2 is not, and both egress accumulators have counted.
C29_Witness ==
    /\ co.pc = "sleep" /\ co.status = "ok"
    /\ co.connections = <<Conn("c1", 1, 0, Uuid(1), "wg-jp"),
                          Conn("c2", 1, 0, Unknown, "direct")>>
    /\ users[1].traffic_used = 1 /\ users[2].traffic_used = 0
    /\ outbound_traffic["wg-jp"].upload = 1
    /\ outbound_traffic["direct"].upload = 1

\* C30: whenever no request is being handled and the last call of the
\* synchronizer returned success, every user whose credential is in a
\* credential list of the document is active in the directory as it is now,
\* also after the collector has written usage at or over a quota.
LastSyncOk ==
    /\ loop = Idle
    /\ \A h \in Handlers : hs[h].st = "free" /\ hs[h].sync \in {"none", "ok"}
    /\ \E h \in Handlers : hs[h].sync = "ok"

InDocument(u) ==
    /\ doc.kind = "json"
    /\ \E i \in 1..Len(doc.inbounds) :
          LET inb == doc.inbounds[i]
          IN /\ inb.type \in {"vless", "hysteria2"}
             /\ inb.hasUsers
             /\ \E j \in 1..Len(inb.users) : inb.users[j] = Credential(inb, u)

C30_ConfigFollowsDirectory ==
    LastSyncOk => \A u \in UserIds : InDocument(u) => u \in ActiveSet(users, now)

\* C31: a call in which the reload command has exited 0 does not restore
\* the document from the backup: when it returns, the document is the one the
\* daemon was reloaded with, also when the audit entry could not be recorded.
C31_NoRestoreAfterReload ==
    \A h \in Handlers :
        (Returned(h) /\ sy[h].reload = "ok") => doc = sy[h].reloaded

\* C32: in a cycle that has processed its snapshot, a connection with a user
\* key and an egress tag adds as many bytes to its user's delta as it adds,
\* upload and download together, to its egress accumulator, also when one of
\* its counters is lower than in the previous poll.  (Each snapshot here has
\* at most one connection, so the cycle's sums are that connection's.)
Attributed(c) == ~c.bad /\ c.id # "" /\ c.user # NoUser /\ c.outbound # ""

EgressAdded(o) ==
    (outbound_traffic'[o].upload - outbound_traffic[o].upload)
        + (outbound_traffic'[o].download - outbound_traffic[o].download)

C32_UserAndEgressAgree ==
    [][ (co.pc = "fetch" /\ co'.status \in {"ok", "write_failed"}
           /\ Len(co'.connections) = 1 /\ Attributed(co'.connections[1]))
          => Process(co'.connections).ud[co'.connections[1].user]
                = EgressAdded(co'.connections[1].outbound) ]_vars

\* C33: a cycle whose processing of the snapshot raises at some entry has
\* changed no egress accumulator, so that the next cycle, which diffs against
\* the tracked table the failed cycle did not replace, counts no byte twice.
ProcessingRaised == co.pc = "fetch" /\ co'.status = "raised"

C33_RaisedCycleChangesNothing ==
    [][ ProcessingRaised => UNCHANGED outbound_traffic ]_vars

\* C34: a positive delta computed for a key of an existing user is
\* eventually in that user's traffic_used, also when the usage write of its
\* cycle failed.  In SpecOwed every snapshot is processed to its end, and
\* c1, with upload bytes only, is the one connection of user 1 and the one
\* through wg-jp, so the upload count of wg-jp is the sum of the deltas
\* computed for user 1.  A
\* delta that is not lost is in traffic_used at the latest when a later usage
\* write for user 1 has succeeded: after each such write user 1 has every
\* byte computed for it so far.
WroteUser1 ==
    co.pc = "fetch" /\ co'.status = "ok" /\ users'[1] # users[1]

C34_NoAttributedTrafficLost ==
    [][ WroteUser1
          => users'[1].traffic_used = outbound_traffic'["wg-jp"].upload ]_vars

\* C35: in a sequence of failed login attempts of a client IP, at most
\* LOGIN_MAX_ATTEMPTS attempts are allowed within any interval of
\* LOGIN_WINDOW_SECONDS seconds.  FailedIn(ip, t): the attempts of ip that
\* were allowed (and answered 401) at the instants t <= s < t + 300.
RECURSIVE SumFailed(_, _)
SumFailed(ip, T) ==
    IF T = {} THEN 0
    ELSE LET s == CHOOSE x \in T : TRUE
         IN failed[ip][s] + SumFailed(ip, T \ {s})

FailedIn(ip, t) ==
    SumFailed(ip, {s \in LoginTimes : t <= s /\ s < t + LOGIN_WINDOW_SECONDS})

C35_AtMostFivePerInterval ==
    \A ip \in Ips : \A t \in LoginTimes : FailedIn(ip, t) <= LOGIN_MAX_ATTEMPTS

\* C36: a client IP is not locked out forever.  In every login request,
\* whose response is resp': a rejected request leaves the IP's entry as it
\* was; a request made more than LOGIN_WINDOW_SECONDS after the first attempt
\* of the IP's window is allowed with LOGIN_MAX_ATTEMPTS - 1 attempts
\* remaining and, when it fails, starts a window at its own time; a request
\* of an IP without entry is allowed as a first attempt; and a successful
\* login removes the IP's entry.
WindowOver(rec) == rec.known /\ clock - rec.last_time > LOGIN_WINDOW_SECONDS

C36_LockoutEnds ==
    [][ clock' = clock
          => LET ip == resp'.ip
                 rec == rate_limit[ip]
             IN /\ resp'.status = 429 => rate_limit' = rate_limit
                /\ (WindowOver(rec) \/ ~rec.known)
                      => /\ resp'.allowed
                         /\ resp'.remaining = LOGIN_MAX_ATTEMPTS - 1
                         /\ resp'.status = 401
                               => rate_limit'[ip] = Record(clock, 1)
                /\ resp'.status = 200 => ~rate_limit'[ip].known ]_vars

\* ip1 has used up the window it opened at time 0, with its last four
\* attempts at second 299, so that its further attempts were rejected up to
\* second 300; its attempt at second 301 is allowed and is the first of a new
\* window.
C36_Witness ==
    /\ clock = LOGIN_WINDOW_SECONDS + 1
    /\ resp = ResponseTo("ip1", 401, Answer(TRUE, LOGIN_MAX_ATTEMPTS - 1, 0, NoRecord))
    /\ rate_limit["ip1"] = Record(LOGIN_WINDOW_SECONDS + 1, 1)
    /\ failed["ip1"][LOGIN_WINDOW_SECONDS - 1] = LOGIN_MAX_ATTEMPTS - 1
    /\ failed["ip1"][LOGIN_WINDOW_SECONDS + 1] = 1

====
